---- MODULE Spec2Model ----
(***************************************************************************)
(* pipetools/main.py: the pipe and maybe combinators, the X placeholder    *)
(* and xcurry.                                                             *)
(*                                                                         *)
(* Python values are pairs <<tag, n>>:  None, ints, bools and a small heap *)
(* of objects.  An exception leaving a call is the outcome <<"raise", c>>. *)
(* Functions (closures) are tuples whose first component names the code    *)
(* that created them; Apply runs them and appends every executed user      *)
(* function and every executed X lambda to a call log.                     *)
(***************************************************************************)
EXTENDS Integers, Sequences, FiniteSets, TLC

\* ---------------------------------------------------------------- bounds
MaxChain == 3      \* functions piped into one pipe / maybe
MaxOps   == 2      \* operations recorded on one placeholder expression
MaxXargs == 2      \* curried positional arguments
MaxArgs  == 1      \* positional arguments of a call of a pipe
MaxCallArgs == 2   \* positional arguments of a call of a curried function

\* ---------------------------------------------------------------- values
NoneV      == <<"None", 0>>
Absent     == <<"absent", 0>>            \* a keyword that was not passed
IntV(n)     == <<"int", n>>
BoolV(b)    == <<"bool", IF b THEN 1 ELSE 0>>
ObjV(k)     == <<"obj", k>>
Raise(c)   == <<"raise", c>>
TypeError  == Raise("TypeError")
ValueError == Raise("ValueError")
AttributeError == Raise("AttributeError")
ZeroDivisionError == Raise("ZeroDivisionError")
IndexError == Raise("IndexError")

IsRaise(v) == v[1] = "raise"
IsNone(v)  == v[1] = "None"
IsNum(v)   == v[1] \in {"int", "bool"}

Keys    == {"j", "k"}
EmptyKw == [key \in Keys |-> Absent]
NoKw(kw) == \A key \in Keys : kw[key] = Absent

\* ------------------------------------------- the Python 2 data the ops act on
RECURSIVE Pow(_, _)
Pow(b, e) == IF e <= 0 THEN 1 ELSE b * Pow(b, e - 1)

RECURSIVE SumSeq(_)
SumSeq(s) == IF s = <<>> THEN 0 ELSE Head(s)[2] + SumSeq(Tail(s))

RECURSIVE SumKw(_, _)
SumKw(kw, ks) ==
    IF ks = {} THEN 0
    ELSE LET key == CHOOSE x \in ks : TRUE
         IN (IF kw[key] = Absent THEN 0 ELSE kw[key][2]) + SumKw(kw, ks \ {key})

\* CPython 2 orders values of different types: None, then numbers, then the rest
Rank(v) == IF IsNone(v) THEN 0 ELSE IF IsNum(v) THEN 1 ELSE 2
PyLt(x, y) == IF IsNum(x) /\ IsNum(y) THEN x[2] < y[2] ELSE Rank(x) < Rank(y)
PyEq(x, y) == IF IsNum(x) /\ IsNum(y) THEN x[2] = y[2] ELSE x = y

\* the objects of the heap: ObjV(0) has attributes, ObjV(1) is the list
\* [3, None], ObjV(2) is a callable summing its arguments
AttrNames == {"a", "b", "m"}
GetAttr(x, name) ==
    IF x = ObjV(0) THEN
        CASE name = "a" -> IntV(2)
          [] name = "b" -> ObjV(1)
          [] name = "m" -> ObjV(2)
          [] OTHER      -> AttributeError
    ELSE AttributeError

GetItem(x, item) ==
    IF x = ObjV(1) /\ IsNum(item) THEN
        CASE item[2] = 0 -> IntV(3)
          [] item[2] = 1 -> NoneV
          [] OTHER       -> IndexError
    ELSE TypeError

AllNum(args, kw) ==
    /\ \A i \in 1..Len(args) : IsNum(args[i])
    /\ \A key \in Keys : kw[key] = Absent \/ IsNum(kw[key])

CallObj(x, args, kw) ==
    IF x = ObjV(2) /\ AllNum(args, kw)
    THEN IntV(10 + SumSeq(args) + SumKw(kw, Keys))
    ELSE TypeError

Arith(op, x, y) ==
    IF ~(IsNum(x) /\ IsNum(y)) THEN TypeError
    ELSE CASE op = "add" -> IntV(x[2] + y[2])
           [] op = "sub" -> IntV(x[2] - y[2])
           [] op = "mul" -> IntV(x[2] * y[2])
           [] op = "pow" -> IntV(Pow(x[2], y[2]))
           [] op = "mod" -> IF y[2] = 0 THEN ZeroDivisionError
                            ELSE IntV(x[2] % y[2])

\* the user's functions: succ(*args, **kw) is 1 + the sum of all its
\* arguments, even(n) is n for an even n and None otherwise, isnone(v) is
\* v is None
FuncNames == {"succ", "even", "isnone"}
BaseFunc(name, args, kw) ==
    IF name = "succ" THEN
        IF AllNum(args, kw) THEN IntV(1 + SumSeq(args) + SumKw(kw, Keys))
        ELSE TypeError
    ELSE IF Len(args) # 1 \/ ~NoKw(kw) THEN TypeError
    ELSE LET v == args[1] IN
         CASE name = "isnone" -> BoolV(IsNone(v))
           [] name = "even"   -> IF ~IsNum(v) THEN TypeError
                                 ELSE IF v[2] % 2 = 0 THEN v ELSE NoneV

\* ------------------------------------------------------------------ state
VARIABLES
    p,          \* the Pipe / Maybe object under construction
    chain,      \* what was piped into p, in call order (history)
    x,          \* the XObject expression under construction
    ops,        \* the operations recorded on x, in recording order (history)
    c,          \* the function xcurry returned, or None
    last,       \* the operation performed by the last step and its inputs
    result,     \* what the last step returned or raised
    log         \* the functions and lambdas the last step executed, in order

vars == <<p, chain, x, ops, c, last, result, log>>

R(out, lg) == [out |-> out, log |-> lg]
IsAbsent(v) == v[1] = "absent"

RECURSIVE Apply(_, _, _, _)

\* debug.pipe_exception_handler: an exception leaving the block is raised
\* again, with the pipe's name added to its message (messages are not modelled)
pipe_exception_handler(r) == r

\* ------------------------------------------------------------ Pipe, Maybe
NewPipe(cls, func) == <<"Pipe", cls, func>>
pipe  == NewPipe("Pipe", NoneV)
maybe == NewPipe("Maybe", NoneV)

\* mutant: the composite applies the two functions in the wrong order
Pipe_compose_swapped(first, second) == <<"composite", "Pipe", second, first>>

\* the closure Pipe.compose returns, and its body
Pipe_compose(first, second) == <<"composite", "Pipe", first, second>>

Pipe_composite(first, second, args, kw, lg) ==
    LET r1 == Apply(first, args, kw, lg)
    IN  pipe_exception_handler(
            IF IsRaise(r1.out) THEN r1
            ELSE Apply(second, <<r1.out>>, EmptyKw, r1.log))

\* the closure Maybe.compose returns, and its body
Maybe_compose(first, second) == <<"composite", "Maybe", first, second>>

Maybe_composite(first, second, args, kw, lg) ==
    LET r1 == Apply(first, args, kw, lg)
    IN  pipe_exception_handler(
            IF IsRaise(r1.out) THEN r1
            ELSE IF IsNone(r1.out) THEN R(NoneV, r1.log)
            ELSE Apply(second, <<r1.out>>, EmptyKw, r1.log))

\* mutant: bind uses Pipe.compose whatever the class
compose_always_pipe(cls, first, second) == Pipe_compose(first, second)

compose(cls, first, second) ==
    IF cls = "Maybe" THEN Maybe_compose(first, second)
    ELSE Pipe_compose(first, second)

bind(cls, first, second) ==
    NewPipe(cls, IF IsNone(second) THEN first
                 ELSE IF IsNone(first) THEN second
                 ELSE compose(cls, first, second))

\* ---------------------------------------------------------------- XObject
NewX(func) == <<"XObject", func>>
X == NewX(NoneV)

XObject_invert(self) == IF IsNone(self[2]) THEN <<"identity">> ELSE self[2]

\* ----------------------------------------------------------------- xcurry
\* a dict of keyword arguments whose iteration order matters: its items and
\* the order in which iteritems yields its keys
Dict(items, order) == [items |-> items, order |-> order]
EmptyDict == Dict(EmptyKw, <<>>)

\* mutant: only the positional arguments are searched for a placeholder
any_x_positional(xargs, xkwargs) ==
    \E i \in 1..Len(xargs) : xargs[i][1] = "XObject"

any_x(xargs, xkwargs) ==
    \/ \E i \in 1..Len(xargs) : xargs[i][1] = "XObject"
    \/ \E key \in Keys : xkwargs.items[key][1] = "XObject"

xcurry(func, xargs, xkwargs) ==
    <<"xcurried", func, xargs, xkwargs, any_x(xargs, xkwargs)>>

use(a, value, lg) ==
    IF a[1] = "XObject" THEN Apply(XObject_invert(a), <<value>>, EmptyKw, lg)
    ELSE R(a, lg)

\* tuple(use(x, first) for x in xargs): stops at the first replay that raises
U(ok, out, lg) == [ok |-> ok, out |-> out, log |-> lg]

RECURSIVE useArgs(_, _, _, _)
useArgs(xargs, first, done, lg) ==
    IF xargs = <<>> THEN U(TRUE, done, lg)
    ELSE LET r == use(Head(xargs), first, lg)
         IN  IF IsRaise(r.out) THEN U(FALSE, r.out, r.log)
             ELSE useArgs(Tail(xargs), first, Append(done, r.out), r.log)

\* dict((k, use(x, first)) for k, x in xkwargs.iteritems())
RECURSIVE useKwargs(_, _, _, _, _)
useKwargs(xkwargs, order, first, done, lg) ==
    IF order = <<>> THEN U(TRUE, done, lg)
    ELSE LET key == Head(order)
         IN  IF IsAbsent(xkwargs[key])
             THEN useKwargs(xkwargs, Tail(order), first, done, lg)
             ELSE LET r == use(xkwargs[key], first, lg)
                  IN  IF IsRaise(r.out) THEN U(FALSE, r.out, r.log)
                      ELSE useKwargs(xkwargs, Tail(order), first,
                                     [done EXCEPT ![key] = r.out], r.log)

\* mutant: the curried keyword wins over the call's
update_curried_wins(kwargs, other) ==
    [key \in Keys |-> IF IsAbsent(kwargs[key]) THEN other[key] ELSE kwargs[key]]

\* dict.update / dict(a, **b)
update(kwargs, other) ==
    [key \in Keys |-> IF IsAbsent(other[key]) THEN kwargs[key] ELSE other[key]]

\* mutant: the first argument is passed on as well
xcurried_keeps_first(f, func_args, func_kwargs, lg) ==
    LET func == f[2]  xargs == f[3]  xkwargs == f[4] IN
    IF f[5] THEN
        IF func_args = <<>> THEN R(ValueError, lg)
        ELSE LET first == func_args[1]
                 ra    == useArgs(xargs, first, <<>>, lg)
                 rk    == useKwargs(xkwargs.items, xkwargs.order, first, EmptyKw,
                                    ra.log)
             IN  IF ~ra.ok THEN R(ra.out, ra.log)
                 ELSE IF ~rk.ok THEN R(rk.out, rk.log)
                 ELSE Apply(func, ra.out \o func_args,
                            [key \in Keys |->
                                IF IsAbsent(func_kwargs[key]) THEN rk.out[key]
                                ELSE func_kwargs[key]], rk.log)
    ELSE Apply(func, xargs \o func_args,
               [key \in Keys |->
                   IF IsAbsent(func_kwargs[key]) THEN xkwargs.items[key]
                   ELSE func_kwargs[key]], lg)

xcurried(f, func_args, func_kwargs, lg) ==
    LET func == f[2]  xargs == f[3]  xkwargs == f[4] IN
    IF f[5] THEN
        IF func_args = <<>> THEN R(ValueError, lg)
        ELSE LET first == func_args[1]
                 rest  == Tail(func_args)
                 ra    == useArgs(xargs, first, <<>>, lg)
                 rk    == useKwargs(xkwargs.items, xkwargs.order, first, EmptyKw,
                                    ra.log)
             IN  IF ~ra.ok THEN R(ra.out, ra.log)
                 ELSE IF ~rk.ok THEN R(rk.out, rk.log)
                 ELSE Apply(func, ra.out \o rest,
                            update(rk.out, func_kwargs), rk.log)
    ELSE Apply(func, xargs \o func_args,
               update(xkwargs.items, func_kwargs), lg)

\* ------------------------------------------------- the lambdas X records
\* the body of the lambda each XObject method hands to bind, applied to v
Lambda(op, a, akw, v, lg) ==
    CASE op = "call"    -> Apply(v, a, akw, lg)
      [] op = "getattr" -> R(GetAttr(v, a), lg)
      [] op = "getitem" -> R(GetItem(v, a), lg)
      [] op = "eq"      -> R(BoolV(PyEq(v, a)), lg)
      [] op = "ne"      -> R(BoolV(~PyEq(v, a)), lg)
      [] op = "gt"      -> R(BoolV(PyLt(a, v)), lg)
      [] op = "ge"      -> R(BoolV(~PyLt(v, a)), lg)
      [] op = "lt"      -> R(BoolV(PyLt(v, a)), lg)
      [] op = "le"      -> R(BoolV(~PyLt(a, v)), lg)
      [] op = "neg"     -> R(IF IsNum(v) THEN IntV(0 - v[2]) ELSE TypeError, lg)
      [] op = "in"      -> R(BoolV(\E i \in 1..Len(a) : PyEq(a[i], v)), lg)
      [] OTHER          -> R(Arith(op, v, a), lg)

\* --------------------------------------------------------------- calling
Pipe_call(self, args, kw, lg) == Apply(self[3], args, kw, lg)

Apply(f, args, kw, lg) ==
    CASE f[1] = "base" ->
            R(BaseFunc(f[2], args, kw), Append(lg, <<"base", f[2], args, kw>>))
      [] f[1] = "lambda" ->
            IF Len(args) # 1 \/ ~NoKw(kw) THEN R(TypeError, lg)
            ELSE Lambda(f[2], f[3], f[4], args[1],
                        Append(lg, <<"lambda", f[2], f[3], f[4], args[1]>>))
      [] f[1] = "identity" ->
            IF Len(args) # 1 \/ ~NoKw(kw) THEN R(TypeError, lg)
            ELSE R(args[1], lg)
      [] f[1] = "composite" ->
            IF f[2] = "Maybe" THEN Maybe_composite(f[3], f[4], args, kw, lg)
            ELSE Pipe_composite(f[3], f[4], args, kw, lg)
      [] f[1] = "Pipe"     -> Pipe_call(f, args, kw, lg)
      [] f[1] = "xcurried" -> xcurried(f, args, kw, lg)
      [] f[1] = "obj"      -> R(CallObj(f, args, kw), lg)
      [] OTHER             -> R(TypeError, lg)

callable(thing) ==
    \/ thing[1] \in {"base", "lambda", "identity", "composite", "Pipe",
                     "xcurried", "XObject"}
    \/ thing = ObjV(2)

\* a string template (StringFormatter) is not among the things piped here
prepare_function_for_pipe(thing) ==
    IF thing[1] = "XObject" THEN XObject_invert(thing)
    ELSE IF thing[1] = "tuple" THEN xcurry(thing[2], thing[3], EmptyDict)
    ELSE IF callable(thing) THEN thing
    ELSE ValueError

Pipe_or(self, next_func) ==
    LET f == prepare_function_for_pipe(next_func)
    IN  IF IsRaise(f) THEN f ELSE bind(self[2], self[3], f)

Pipe_ror(self, prev_func) ==
    LET f == prepare_function_for_pipe(prev_func)
    IN  IF IsRaise(f) THEN f ELSE bind(self[2], f, self[3])

Pipe_lt(self, thing, lg) ==
    IF ~IsNone(self[3]) THEN Apply(self[3], <<thing>>, EmptyKw, lg)
    ELSE R(thing, lg)

\* mutant: Maybe inherits < from Pipe
Maybe_lt_inherited(self, thing, lg) == Pipe_lt(self, thing, lg)

Maybe_lt(self, thing, lg) ==
    IF IsNone(thing) THEN R(NoneV, lg)
    ELSE IF ~IsNone(self[3]) THEN Apply(self[3], <<thing>>, EmptyKw, lg)
    ELSE R(thing, lg)

\* mutant: the new operation is put in front of the recorded ones
XObject_bind_prepend(self, func) ==
    NewX(IF ~IsNone(self[2]) THEN Pipe_ror(self[2], func)
         ELSE Pipe_or(pipe, func))

\* XObject.bind: func is the lambda the calling method made
XObject_bind(self, func) ==
    NewX(IF ~IsNone(self[2]) THEN Pipe_or(self[2], func)
         ELSE Pipe_or(pipe, func))

\* XObject.__call__, __getattr__, __getitem__, the comparisons, the
\* arithmetic and _in_: each binds a lambda holding its operand
XObject_record(self, op, a, akw) == XObject_bind(self, <<"lambda", op, a, akw>>)

\* ---------------------------------------------------------------- inputs
SeqsUpTo(n, S) == UNION {[1..k -> S] : k \in 0..n}

CallVals == {NoneV, IntV(0), IntV(1)}
PipeArgs == {NoneV, IntV(1)}
CallKws  == {[EmptyKw EXCEPT !["k"] = v] : v \in {Absent, IntV(1)}}

\* what gets piped: the user's functions, the placeholder X * 2, the tuple
\* (succ, X, 1) and the integer 0 (which cannot be piped)
Things == << <<"base", "succ">>, <<"base", "even">>, <<"base", "isnone">>,
             XObject_record(X, "mul", IntV(2), EmptyKw),
             <<"tuple", <<"base", "succ">>, <<X, IntV(1)>> >>,
             IntV(0) >>

Op(op, a, akw) == [op |-> op, args |-> a, kw |-> akw]
NoResult == Absent

Init ==
    /\ p = pipe
    /\ chain = <<>>
    /\ x = X
    /\ ops = <<>>
    /\ c = NoneV
    /\ last = Op("init", <<>>, EmptyKw)
    /\ result = NoResult
    /\ log = <<>>

\* ------------------------------------------------- pipe and maybe: steps
\* start a new expression from the module's pipe or maybe object
Start ==
    \E o \in {"Pipe", "Maybe"} :
        /\ p' = (IF o = "Maybe" THEN maybe ELSE pipe)
        /\ chain' = <<>>
        /\ last' = Op("start", <<>>, EmptyKw)
        /\ result' = NoResult
        /\ log' = <<>>
        /\ UNCHANGED <<x, ops, c>>

\* p | thing
Or ==
    \E i \in 1..Len(Things) :
        /\ Len(chain) < MaxChain
        /\ LET r == Pipe_or(p, Things[i])
           IN  IF IsRaise(r)
               THEN /\ result' = r
                    /\ UNCHANGED <<p, chain>>
               ELSE /\ result' = NoResult
                    /\ p' = r
                    /\ chain' = Append(chain, Things[i])
        /\ last' = Op("or", <<>>, EmptyKw)
        /\ log' = <<>>
        /\ UNCHANGED <<x, ops, c>>

\* thing | p
Ror ==
    \E i \in 1..Len(Things) :
        /\ Len(chain) < MaxChain
        /\ LET r == Pipe_ror(p, Things[i])
           IN  IF IsRaise(r)
               THEN /\ result' = r
                    /\ UNCHANGED <<p, chain>>
               ELSE /\ result' = NoResult
                    /\ p' = r
                    /\ chain' = <<Things[i]>> \o chain
        /\ last' = Op("ror", <<>>, EmptyKw)
        /\ log' = <<>>
        /\ UNCHANGED <<x, ops, c>>

\* p(*args, **kw)
Call ==
    \E args \in SeqsUpTo(MaxArgs, PipeArgs), kw \in CallKws :
        LET r == Pipe_call(p, args, kw, <<>>)
        IN  /\ result' = r.out
            /\ log' = r.log
            /\ last' = Op("call", args, kw)
            /\ UNCHANGED <<p, chain, x, ops, c>>

\* p < thing
Lt ==
    \E v \in CallVals :
        LET r == IF p[2] = "Maybe" THEN Maybe_lt(p, v, <<>>)
                 ELSE Pipe_lt(p, v, <<>>)
        IN  /\ result' = r.out
            /\ log' = r.log
            /\ last' = Op("lt", <<v>>, EmptyKw)
            /\ UNCHANGED <<p, chain, x, ops, c>>

Next == Start \/ Or \/ Ror \/ Call \/ Lt

Spec == Init /\ [][Next]_vars

\* ------------------------------------------------- the placeholder: steps
\* the operations recorded on X: <<method, operand, keyword operands>>
RecOps == << <<"call", <<>>, EmptyKw>>,
             <<"call", <<IntV(1)>>, [EmptyKw EXCEPT !["k"] = IntV(1)]>>,
             <<"getattr", "a", EmptyKw>>,
             <<"getattr", "b", EmptyKw>>,
             <<"getattr", "m", EmptyKw>>,
             <<"getitem", IntV(0), EmptyKw>>,
             <<"getitem", IntV(1), EmptyKw>>,
             <<"eq", IntV(3), EmptyKw>>,
             <<"ne", NoneV, EmptyKw>>,
             <<"gt", IntV(1), EmptyKw>>,
             <<"ge", IntV(1), EmptyKw>>,
             <<"lt", IntV(1), EmptyKw>>,
             <<"le", IntV(1), EmptyKw>>,
             <<"mod", IntV(2), EmptyKw>>,
             <<"mod", IntV(0), EmptyKw>>,
             <<"neg", NoneV, EmptyKw>>,
             <<"mul", IntV(2), EmptyKw>>,
             <<"add", IntV(1), EmptyKw>>,
             <<"sub", IntV(1), EmptyKw>>,
             <<"pow", IntV(2), EmptyKw>>,
             <<"in", <<IntV(1), NoneV>>, EmptyKw>> >>

ReplayVals == {NoneV, IntV(0), IntV(1), IntV(3), ObjV(0), ObjV(1), ObjV(2)}

\* x.name, x[item], x(...), x == other, x + other, ...: one more operation
Record ==
    \E i \in 1..Len(RecOps) :
        /\ Len(ops) < MaxOps
        /\ x' = XObject_record(x, RecOps[i][1], RecOps[i][2], RecOps[i][3])
        /\ ops' = Append(ops, RecOps[i])
        /\ last' = Op("record", <<>>, EmptyKw)
        /\ result' = NoResult
        /\ log' = <<>>
        /\ UNCHANGED <<p, chain, c>>

\* (~x)(v)
Replay ==
    \E v \in ReplayVals :
        LET r == Apply(XObject_invert(x), <<v>>, EmptyKw, <<>>)
        IN  /\ result' = r.out
            /\ log' = r.log
            /\ last' = Op("replay", <<v>>, EmptyKw)
            /\ UNCHANGED <<p, chain, x, ops, c>>

NextX == Record \/ Replay

SpecX == Init /\ [][NextX]_vars

\* ------------------------------------------------------- xcurry: steps
Xmul2 == XObject_record(X, "mul", IntV(2), EmptyKw)
CurryArgs == <<IntV(5), Xmul2>>            \* curried positional arguments
CurryK    == <<IntV(7), X>>                \* curried values of keyword k
CurryJ    == <<Xmul2>>                     \* curried values of keyword j
Pick(vals, i) == IF i = 0 THEN Absent ELSE vals[i]
Orders(S) == {o \in [1..Cardinality(S) -> S] :
                 \A a, b \in 1..Cardinality(S) : a # b => o[a] # o[b]}

\* c = xcurry(succ, *xargs, **xkwargs)
Curry ==
    \E idx \in SeqsUpTo(MaxXargs, 1..Len(CurryArgs)),
       ik \in 0..Len(CurryK), ij \in 0..Len(CurryJ) :
        LET xargs == [i \in 1..Len(idx) |-> CurryArgs[idx[i]]]
            items == [key \in Keys |-> IF key = "k" THEN Pick(CurryK, ik)
                                       ELSE Pick(CurryJ, ij)]
            present == {key \in Keys : ~IsAbsent(items[key])}
        IN  \E order \in Orders(present) :
                /\ c' = xcurry(<<"base", "succ">>, xargs, Dict(items, order))
                /\ last' = Op("xcurry", <<>>, EmptyKw)
                /\ result' = NoResult
                /\ log' = <<>>
                /\ UNCHANGED <<p, chain, x, ops>>

CurryCallKws == {[EmptyKw EXCEPT !["k"] = v] : v \in {Absent, IntV(9)}}

\* c(*func_args, **func_kwargs)
CallCurried ==
    \E args \in SeqsUpTo(MaxCallArgs, CallVals), kw \in CurryCallKws :
        /\ c[1] = "xcurried"
        /\ LET r == xcurried(c, args, kw, <<>>)
           IN  /\ result' = r.out
               /\ log' = r.log
        /\ last' = Op("xcurried", args, kw)
        /\ UNCHANGED <<p, chain, x, ops, c>>

NextCurry == Curry \/ CallCurried

SpecCurry == Init /\ [][NextCurry]_vars

\* ================================================================ claims
\* what the logged call e of a user function returned
Ret(e) == BaseFunc(e[2], e[3], e[4])
AllBase(fs) == \A i \in 1..Len(fs) : fs[i][1] = "base"

\* the log is a run of the chain fs from its first function on: entry i is a
\* call of fs[i], the first with the caller's arguments and every later one
\* with exactly the value the one before returned
RunsChain(fs, lg, args, kw) ==
    /\ Len(lg) \in 1..Len(fs)
    /\ \A i \in 1..Len(lg) : lg[i][1] = "base" /\ lg[i][2] = fs[i][2]
    /\ lg[1][3] = args /\ lg[1][4] = kw
    /\ \A i \in 2..Len(lg) : lg[i][3] = <<Ret(lg[i-1])>> /\ lg[i][4] = EmptyKw

PipeCalled(cls) ==
    /\ last.op = "call"
    /\ p[2] = cls
    /\ chain # <<>>
    /\ AllBase(chain)

\* C1: for p = pipe | f1 | ... | fn built from callables, p(*args, **kw)
\* calls f1 with the caller's arguments, then each next function once with
\* what the one before returned, and returns what fn returned (a function
\* that raises ends the call with its exception).
C1_PipeComposes ==
    PipeCalled("Pipe") =>
        /\ RunsChain(chain, log, last.args, last.kw)
        /\ result = Ret(log[Len(log)])
        /\ Len(log) < Len(chain) => IsRaise(result)

C1_Witness ==
    /\ PipeCalled("Pipe")
    /\ Len(chain) = 3
    /\ Len(log) = 3
    /\ ~IsAbsent(last.kw["k"])
    /\ chain[1][2] # chain[2][2]
    /\ ~IsRaise(result)

\* C2: for m = maybe | f1 | ... | fn built from callables, the first
\* function that returns None ends the call: no later one is called and m(x)
\* is None; when none returns None m(x) is fn(...f1(x)...).  Every | on a
\* Maybe gives a Maybe whose composites are Maybe composites.
C2_MaybeInv ==
    /\ PipeCalled("Maybe") =>
        /\ RunsChain(chain, log, last.args, last.kw)
        /\ result = Ret(log[Len(log)])
        /\ \A i \in 1..Len(log) : IsNone(Ret(log[i])) => i = Len(log)
        /\ Len(log) < Len(chain) => IsNone(result) \/ IsRaise(result)
    /\ (p[2] = "Maybe" /\ Len(chain) >= 2) =>
            p[3][1] = "composite" /\ p[3][2] = "Maybe"

C2_MaybeShortCircuits ==
    /\ [] C2_MaybeInv
    /\ [][(p[2] = "Maybe" /\ last'.op \in {"or", "ror"}) => p'[2] = "Maybe"]_vars

C2_Witness ==
    /\ PipeCalled("Maybe")
    /\ Len(chain) = 3
    /\ Len(log) = 1
    /\ IsNone(Ret(log[1]))
    /\ IsNone(result)

\* C7: p < v is p.func(v), or v itself when p is empty; on a Maybe, None < is
\* None and nothing is called.  A call (maybe | f)(None) does call f with None.
C7_LtApplies ==
    /\ last.op = "lt" =>
        LET v == last.args[1] IN
        IF p[2] = "Maybe" /\ IsNone(v) THEN result = NoneV /\ log = <<>>
        ELSE IF IsNone(p[3]) THEN result = v /\ log = <<>>
        ELSE /\ result = Apply(p[3], <<v>>, EmptyKw, <<>>).out
             /\ log = Apply(p[3], <<v>>, EmptyKw, <<>>).log
             /\ AllBase(chain) => log # <<>> /\ log[1][3] = <<v>>
    /\ (PipeCalled("Maybe") /\ last.args = <<NoneV>> /\ NoKw(last.kw)) =>
            log # <<>> /\ log[1] = <<"base", chain[1][2], <<NoneV>>, EmptyKw>>

C7_Witness ==
    /\ last.op = "lt"
    /\ p[2] = "Maybe"
    /\ IsNone(last.args[1])
    /\ Len(chain) = 2
    /\ AllBase(chain)
    /\ chain[1][2] = "isnone"
    /\ log = <<>>

\* what the recorded operation o makes of the value v
OpOf(o, v) == Lambda(o[1], o[2], o[3], v, <<>>).out

IsX(a) == a[1] = "XObject"
HasX(f) ==
    \/ \E i \in 1..Len(f[3]) : IsX(f[3][i])
    \/ \E key \in Keys : IsX(f[4].items[key])

\* the curried argument a with the placeholder replayed on a0
Replayed(a, a0) ==
    IF IsX(a) THEN Apply(XObject_invert(a), <<a0>>, EmptyKw, <<>>).out ELSE a

ReplaysFail(f, a0) ==
    \/ \E i \in 1..Len(f[3]) : IsRaise(Replayed(f[3][i], a0))
    \/ \E key \in Keys : IsRaise(Replayed(f[4].items[key], a0))

BaseCalls(lg) == {i \in 1..Len(lg) : lg[i][1] = "base"}
\* func was called exactly once, as the last thing the step did
FuncCalled == BaseCalls(log) = {Len(log)} /\ log # <<>>
FuncCall == log[Len(log)]

CurriedCalled == last.op = "xcurried"

\* C4: with a placeholder among the curried arguments, g(a0, a1, ...) calls
\* func with the curried positional arguments in their positions, every
\* placeholder replaced by its replay on a0, followed by a1, ...; placeholder
\* keyword values are replaced likewise.  Without a placeholder func gets the
\* curried positional arguments followed by all of the call's.
C4_CurriedArguments ==
    CurriedCalled =>
        IF HasX(c) THEN
            (last.args # <<>> /\ ~ReplaysFail(c, last.args[1])) =>
                LET a0 == last.args[1] IN
                /\ FuncCalled
                /\ FuncCall[3] =
                      [i \in 1..Len(c[3]) |-> Replayed(c[3][i], a0)]
                          \o Tail(last.args)
                /\ \A key \in Keys :
                      (IsAbsent(last.kw[key]) /\ IsX(c[4].items[key])) =>
                          FuncCall[4][key] = Replayed(c[4].items[key], a0)
        ELSE /\ FuncCalled
             /\ FuncCall[3] = c[3] \o last.args

C4_Witness ==
    /\ CurriedCalled
    /\ Len(c[3]) = 2 /\ ~IsX(c[3][1]) /\ IsX(c[3][2])
    /\ IsX(c[4].items["j"])
    /\ Len(last.args) = 2
    /\ FuncCalled
    /\ FuncCall[3] = <<IntV(5), IntV(2), IntV(0)>>
    /\ FuncCall[4]["j"] = IntV(2)

\* C5: a keyword given both when currying and at the call reaches func with
\* the call's value, with or without a placeholder; a curried keyword the
\* call does not give is passed through.
C5_CallKeywordsWin ==
    (CurriedCalled /\ FuncCalled) =>
        \A key \in Keys :
            /\ ~IsAbsent(last.kw[key]) => FuncCall[4][key] = last.kw[key]
            /\ (IsAbsent(last.kw[key]) /\ ~IsAbsent(c[4].items[key])) =>
                  FuncCall[4][key] =
                      (IF HasX(c) THEN Replayed(c[4].items[key], last.args[1])
                       ELSE c[4].items[key])
            /\ (IsAbsent(last.kw[key]) /\ IsAbsent(c[4].items[key])) =>
                  IsAbsent(FuncCall[4][key])

C5_Witness ==
    /\ CurriedCalled
    /\ FuncCalled
    /\ HasX(c)
    /\ c[4].items["k"] = IntV(7)
    /\ last.kw["k"] = IntV(9)
    /\ FuncCall[4]["k"] = IntV(9)
    /\ ~IsAbsent(FuncCall[4]["j"])

\* C6: curried with a placeholder and called with no positional argument,
\* the call raises ValueError and func is not called; curried without one,
\* such a call calls func and does not raise that error.
C6_NoPositionalArgument ==
    (CurriedCalled /\ last.args = <<>>) =>
        IF HasX(c) THEN result = ValueError /\ log = <<>>
        ELSE FuncCalled /\ result # ValueError /\ result = Ret(FuncCall)

C6_Witness ==
    /\ CurriedCalled
    /\ last.args = <<>>
    /\ \A i \in 1..Len(c[3]) : ~IsX(c[3][i])
    /\ IsX(c[4].items["k"])
    /\ last.kw["k"] = IntV(9)
    /\ result = ValueError

====
